---- MODULE Spec2Model ----
(***************************************************************************)
(* Model of otp_api.c: the polling HTTP front end of the RRRR broker.      *)
(*                                                                         *)
(* The connection table (conn_items, buffers, n_conn), the removal queue   *)
(* (conn_remove_queue), the line accumulator (read_input), the request     *)
(* dispatcher (send_request) and the event loop of main are modelled from  *)
(* the C source. Operators that model C functions take the program state   *)
(* as a record W and return the state after the call, so that one action   *)
(* of the event loop is the composition of the calls the code makes.       *)
(*                                                                         *)
(* Bytes are their ASCII codes. buffers[i].buf is the sequence of bytes     *)
(* that have been written behind the char pointer since the buffer was     *)
(* last handed to a new connection (positions 0 .. Len-1); what lies       *)
(* beyond them is malloc'ed memory never written, or bytes left by an      *)
(* earlier connection, and a read of it yields any of StaleBytes. Swapping *)
(* two buffer structs (which swaps the char pointers) swaps the two        *)
(* sequences. Socket descriptors are small integers handed out by the      *)
(* operating system, lowest free number first.                             *)
(***************************************************************************)
EXTENDS Integers, Sequences, FiniteSets, Bags, TLC

\* ---------------------------------------------------------------- bounds
\* The table capacity and the buffer length, scaled down from 100 and 1024.
MAX_CONN == 3
BUFLEN == 11
\* Client descriptors the operating system hands out are 1..NumFds.
NumFds == 3
\* Broker requests not yet answered, at most.
MaxInflight == 2
\* Connections accepted in one run, at most.
MaxAccepted == 3
\* How far below zero the driver of read_input lets errors push size.
MaxNeg == 2
\* The descriptors the driver of the reply path hands out are 1..MaxSd.
MaxSd == 300
\* The longest byte sequence the driver of read_input delivers at once.
MaxRecv == 2

\* ------------------------------------------------------------- constants
NUL == 0
LF == 10
CR == 13
SP == 32
QMARK == 63
TAB == 9
GET == <<71, 69, 84>>
ZMQ_POLLIN == "POLLIN"
ZMQ_POLLERR == "POLLERR"
NONE == "none"
ERROR_404 == "404"
OK_TEXT_PLAIN == "200"
RESPONSE == "response"
BYTE == 256

NoCall == [op |-> "none", arg |-> 0, ret |-> FALSE]

Slots == 0 .. (MAX_CONN - 1)
Fds == 1 .. NumFds

\* What a client may deliver in one recv: "GET ", "?a\n".
Chunks == { <<71, 69, 84, 32>>, <<63, 97, LF>> }
\* What a byte of a buffer that was not written since the buffer was handed
\* to its connection may hold.
StaleBytes == {NUL, LF}

VARIABLES
    pc,                 \* position of main in its loop
    n_conn,             \* number of open connections
    conn_items,         \* poll items of the connections: fd, events, revents
    buffers,            \* per slot: the bytes behind buf, and size
    conn_remove_queue,  \* conn_remove_queue[0 .. conn_remove_n-1]
    broker_revents,     \* poll_items[0].revents
    http_events,        \* poll_items[1].events
    http_revents,       \* poll_items[1].revents
    n_waiting,          \* result of zmq_poll, counted down (0 between iterations)
    c,                  \* index of the read scan (0 outside the loop)
    fd_open,            \* descriptors the process holds open
    call,               \* the call made last that a property refers to
    accepted,           \* number of connections accepted so far
    fd_err,             \* open descriptors whose connection has failed
    sent,               \* the send calls of the last step: <<sd, text>>
    broker_msgs,        \* bag of request envelopes at the broker
    oob                 \* a recv was given memory outside a buffer

vars == <<pc, n_conn, conn_items, buffers, conn_remove_queue, broker_revents,
          http_events, http_revents, n_waiting, c, fd_open, fd_err, sent,
          broker_msgs, oob, accepted, call>>

\* The program state the C functions read and write, as one value, at the
\* start of a step (nothing sent yet in this step).
World ==
    [ n_conn |-> n_conn, conn_items |-> conn_items, buffers |-> buffers,
      conn_remove_queue |-> conn_remove_queue, fd_open |-> fd_open,
      fd_err |-> fd_err, sent |-> <<>>, broker_msgs |-> broker_msgs, oob |-> oob ]

Store(W) ==
    /\ n_conn' = W.n_conn
    /\ conn_items' = W.conn_items
    /\ buffers' = W.buffers
    /\ conn_remove_queue' = W.conn_remove_queue
    /\ fd_open' = W.fd_open
    /\ fd_err' = W.fd_err
    /\ sent' = W.sent
    /\ broker_msgs' = W.broker_msgs
    /\ oob' = W.oob

\* ------------------------------------------------------ operating system
\* send(sd, text): the client on an open descriptor receives the text.
send(W, sd, text) ==
    IF sd \in W.fd_open THEN [W EXCEPT !.sent = Append(@, <<sd, text>>)] ELSE W

\* close(sd): an open descriptor is released; otherwise EBADF, no effect.
close(W, sd) ==
    [W EXCEPT !.fd_open = @ \ {sd}, !.fd_err = @ \ {sd}]

Min(S) == CHOOSE x \in S : \A y \in S : x <= y

\* ------------------------------------------------------ connection table
\* n_conn is a uint32_t. The model computes on the integers: as long as
\* n_conn stays within 0 .. MAX_CONN (NConnInRange below) no operation of
\* the code wraps, and the two agree.
\* remove_conn_later that stores the index twice.
remove_conn_later_twice(W, nc) ==
    [W EXCEPT !.conn_remove_queue = Append(Append(@, nc), nc)]

\* remove_conn_later that forgets the index.
remove_conn_later_dropped(W, nc) == W

\* remove_conn_later: append to the removal queue.
remove_conn_later(W, nc) ==
    [W EXCEPT !.conn_remove_queue = Append(@, nc)]

\* add_conn: append a poll item for sd, unless the table is full.
add_conn(W, sd) ==
    IF W.n_conn < MAX_CONN
    THEN [W EXCEPT
            !.conn_items[W.n_conn] =
                [@ EXCEPT !.fd = sd, !.events = ZMQ_POLLIN],
            !.n_conn = @ + 1]
    ELSE W

\* The vacated slot keeps its fill size.
NotVacated(b) == b

\* buffers[last_index].size = 0: the bytes behind the pointer are from now
\* on bytes left by an earlier connection.
Vacated(b) == [buf |-> <<>>, size |-> 0]

\* remove_conn with the range check off by one (nc > n_conn).
remove_conn_off_by_one(W, nc) ==
    IF nc > W.n_conn
    THEN [W |-> W, ret |-> FALSE]
    ELSE IF nc = W.n_conn
    THEN [W |-> [W EXCEPT !.n_conn = @ - 1], ret |-> TRUE]
    ELSE LET last_index == W.n_conn - 1
             temp == W.buffers[nc]
         IN [W |-> [W EXCEPT
                      !.conn_items[nc] = W.conn_items[last_index],
                      !.buffers = [[@ EXCEPT ![nc] = W.buffers[last_index]]
                                      EXCEPT ![last_index] = Vacated(temp)],
                      !.n_conn = @ - 1],
             ret |-> TRUE]

\* remove_conn without the swap of the buffers.
remove_conn_no_swap(W, nc) ==
    IF nc >= W.n_conn
    THEN [W |-> W, ret |-> FALSE]
    ELSE LET last_index == W.n_conn - 1
         IN [W |-> [W EXCEPT
                      !.conn_items[nc] = W.conn_items[last_index],
                      !.buffers[last_index] = Vacated(@),
                      !.n_conn = @ - 1],
             ret |-> TRUE]

\* remove_conn: swap the last open connection into slot nc. The state
\* after the call, and its return value.
remove_conn(W, nc) ==
    IF nc >= W.n_conn
    THEN [W |-> W, ret |-> FALSE]
    ELSE LET last_index == W.n_conn - 1
             temp == W.buffers[nc]
         IN [W |-> [W EXCEPT
                      !.conn_items[nc] = W.conn_items[last_index],
                      !.buffers = [[@ EXCEPT ![nc] = W.buffers[last_index]]
                                      EXCEPT ![last_index] = Vacated(temp)],
                      !.n_conn = @ - 1],
             ret |-> TRUE]

\* The loop of remove_conn_enqueued over conn_remove_queue[i ..].
RECURSIVE RemoveFrom(_, _)
RemoveFrom(W, i) ==
    IF i > Len(W.conn_remove_queue)
    THEN W
    ELSE RemoveFrom(remove_conn(W, W.conn_remove_queue[i]).W, i + 1)

\* remove_conn_enqueued without conn_remove_n = 0.
remove_conn_enqueued_keep(W) == RemoveFrom(W, 1)

\* remove_conn_enqueued: remove every queued index, then clear the queue.
remove_conn_enqueued(W) ==
    [RemoveFrom(W, 1) EXCEPT !.conn_remove_queue = <<>>]

\* ------------------------------------------------------ line accumulator
\* Byte p (counted from 0) of a buffer whose bytes are all written.
At(b, p) == b[p + 1]

\* The bytes behind a buffer after seq was stored at position p >= 0.
WriteAt(b, p, seq) ==
    [q \in 1 .. (IF p + Len(seq) > Len(b) THEN p + Len(seq) ELSE Len(b)) |->
        IF q - 1 >= p /\ q - 1 < p + Len(seq) THEN seq[q - p] ELSE b[q]]

IsEol(x) == x = LF \/ x = CR

\* What a peer can make a recv return: bytes, end of stream, or an error.
Data(bytes) == [kind |-> "data", bytes |-> bytes]
Eof == [kind |-> "eof", bytes |-> <<>>]
Err == [kind |-> "err", bytes |-> <<>>]

\* recv(conn_sd, c, remaining, 0): the return value n and the bytes stored,
\* at most remaining of what the peer delivered; 0 for a closed peer or a
\* zero-length request; -1 for an error or a descriptor that is not open.
recv(W, sd, remaining, ev) ==
    IF sd \notin W.fd_open \/ ev.kind = "err" THEN [n |-> -1, bytes |-> <<>>]
    ELSE IF ev.kind = "eof" \/ remaining = 0 THEN [n |-> 0, bytes |-> <<>>]
    ELSE LET k == IF Len(ev.bytes) < remaining THEN Len(ev.bytes) ELSE remaining
         IN [n |-> k, bytes |-> SubSeq(ev.bytes, 1, k)]

\* A connection that failed (reset by its peer) stays failed.
Failed(W, sd, ev) ==
    IF sd \in W.fd_open /\ ev.kind = "err"
    THEN [W EXCEPT !.fd_err = @ \cup {sd}]
    ELSE W

\* The scan of read_input for the first '\n' or '\r' among positions
\* from .. to of the buffer (to included: the loop runs while c <= end).
RECURSIVE FirstEol(_, _, _)
FirstEol(b, from, to) ==
    IF from > to THEN -1
    ELSE IF IsEol(At(b, from)) THEN from
    ELSE FirstEol(b, from + 1, to)

\* read_input: the state after the call, and its return value eol.
\* received is a size_t: -1 becomes SIZE_MAX, size += received leaves
\* size - 1 in the int, and end = c + received lies before c, so that the
\* scan runs zero times. The scan reads received + 1 bytes: the last one,
\* at position size, was not written by this recv; stale is what it holds
\* when it was not written since the buffer was handed to the connection.
\* With size < 0 the bytes received are stored before the buffer (oob).
read_input(W, nc, ev, stale) ==
    LET b == W.buffers[nc]
        conn_sd == W.conn_items[nc].fd
        remaining == BUFLEN - b.size
        got == recv(W, conn_sd, remaining, ev)
        received == got.n
    IN  IF received = 0
        THEN [W |-> remove_conn_later(W, nc), eol |-> FALSE]
        ELSE IF received < 0
        THEN [W |-> [Failed(W, conn_sd, ev) EXCEPT
                        !.buffers[nc].size = @ + received],
              eol |-> FALSE]
        ELSE IF b.size < 0
        THEN [W |-> [W EXCEPT !.oob = TRUE], eol |-> FALSE]
        ELSE LET size == b.size + received
                 stored == WriteAt(b.buf, b.size, got.bytes)
                 W1 == [W EXCEPT !.buffers[nc] = [buf |-> stored, size |-> size]]
             IN IF size >= BUFLEN
                THEN [W |-> W1, eol |-> FALSE]
                ELSE LET seen == IF size < Len(stored) THEN stored
                                 ELSE Append(stored, stale)
                         p == FirstEol(seen, b.size, size)
                     IN IF p < 0
                        THEN [W |-> W1, eol |-> FALSE]
                        ELSE [W |-> [W1 EXCEPT !.buffers[nc].buf =
                                        WriteAt(stored, p, <<NUL>>)],
                              eol |-> TRUE]

\* ---------------------------------------------------- request dispatcher
\* First position >= p of the buffer whose byte is not a blank.
RECURSIVE SkipBlanks(_, _)
SkipBlanks(b, p) ==
    IF p >= Len(b) THEN Len(b)
    ELSE IF At(b, p) = SP THEN SkipBlanks(b, p + 1)
    ELSE p

\* First position >= p of the buffer whose byte is a blank or NUL.
RECURSIVE TokenEnd(_, _)
TokenEnd(b, p) ==
    IF p >= Len(b) THEN Len(b)
    ELSE IF At(b, p) = SP \/ At(b, p) = NUL THEN p
    ELSE TokenEnd(b, p + 1)

\* strtok (., " ") continuing at position p: whether a token was found,
\* where it lies (start included, end excluded), the buffer with the
\* delimiter after it overwritten by NUL, and where the next call continues.
strtok(b, p) ==
    LET s == SkipBlanks(b, p)
        e == TokenEnd(b, s)
    IN  IF s >= Len(b) \/ At(b, s) = NUL
        THEN [found |-> FALSE, start |-> s, end |-> s, buf |-> b, next |-> s]
        ELSE IF e < Len(b) /\ At(b, e) = SP
        THEN [found |-> TRUE, start |-> s, end |-> e,
              buf |-> [b EXCEPT ![e + 1] = NUL], next |-> e + 1]
        ELSE [found |-> TRUE, start |-> s, end |-> e, buf |-> b, next |-> e]

\* index (resource, '?') within the token from s to e: its position, or -1.
RECURSIVE IndexQ(_, _, _)
IndexQ(b, s, e) ==
    IF s >= e THEN -1
    ELSE IF At(b, s) = QMARK THEN s
    ELSE IndexQ(b, s + 1, e)

\* The envelope zmsg_pushmem (msg, &conn_sd, sizeof(conn_sd)) builds: the
\* four bytes of the uint32_t, least significant first.
Frame(sd) ==
    << sd % BYTE, (sd \div BYTE) % BYTE, (sd \div (BYTE * BYTE)) % BYTE,
       (sd \div (BYTE * BYTE * BYTE)) % BYTE >>

\* uint32_t sd = *(zframe_data (sd_frame)): zframe_data is a byte pointer.
FrameSd(frame) == frame[1]

\* The parse of send_request: the buffer after the strtok calls and whether
\* the line is  GET <resource>?<query>.
ParseRequest(b) ==
    LET t1 == strtok(b, 0)
        verb == [i \in 1 .. (t1.end - t1.start) |-> At(b, t1.start + i - 1)]
        t2 == strtok(t1.buf, t1.next)
        qstring == IndexQ(t2.buf, t2.start, t2.end)
    IN  IF ~t1.found THEN [buf |-> b, ok |-> FALSE]
        ELSE IF verb # GET THEN [buf |-> t1.buf, ok |-> FALSE]
        ELSE IF ~t2.found THEN [buf |-> t2.buf, ok |-> FALSE]
        ELSE IF qstring < 0 \/ qstring + 1 >= t2.end
        THEN [buf |-> t2.buf, ok |-> FALSE]
        ELSE [buf |-> t2.buf, ok |-> TRUE]

\* send_request whose cleanup path does not close the descriptor.
send_request_no_close(W, nc) ==
    LET conn_sd == W.conn_items[nc].fd
        parsed == ParseRequest(W.buffers[nc].buf)
        W1 == [W EXCEPT !.buffers[nc].buf = parsed.buf]
    IN  IF parsed.ok
        THEN remove_conn_later(
                [W1 EXCEPT !.broker_msgs = @ (+) SetToBag({Frame(conn_sd)})],
                nc)
        ELSE remove_conn_later(send(W1, conn_sd, ERROR_404), nc)

\* send_request: forward to the broker, or answer 404 and close.
send_request(W, nc) ==
    LET conn_sd == W.conn_items[nc].fd
        parsed == ParseRequest(W.buffers[nc].buf)
        W1 == [W EXCEPT !.buffers[nc].buf = parsed.buf]
    IN  IF parsed.ok
        THEN remove_conn_later(
                [W1 EXCEPT !.broker_msgs = @ (+) SetToBag({Frame(conn_sd)})],
                nc)
        ELSE remove_conn_later(close(send(W1, conn_sd, ERROR_404), conn_sd), nc)

\* The reply handling of main: the response goes to the descriptor read
\* from the first frame, which is then closed.
route_reply(W, frame) ==
    LET sd == FrameSd(frame)
    IN close(send(send(W, sd, OK_TEXT_PLAIN), sd, RESPONSE), sd)

\* ------------------------------------------------------------ event loop
Init ==
    /\ pc = "poll"
    /\ n_conn = 0
    /\ conn_items = [i \in Slots |-> [fd |-> 0, events |-> NONE, revents |-> NONE]]
    /\ buffers = [i \in Slots |-> [buf |-> <<>>, size |-> 0]]
    /\ conn_remove_queue = <<>>
    /\ broker_revents = NONE
    /\ http_events = ZMQ_POLLIN
    /\ http_revents = NONE
    /\ n_waiting = 0
    /\ c = 0
    /\ fd_open = {}
    /\ fd_err = {}
    /\ accepted = 0
    /\ call = NoCall
    /\ sent = <<>>
    /\ broker_msgs = EmptyBag
    /\ oob = FALSE

Active == {i \in Slots : i < n_conn}

\* http_item->events = n_conn < MAX_CONN ? ZMQ_POLLIN : 0
\* The listening socket polled whatever the number of connections.
HttpInterestAlways(n) == ZMQ_POLLIN

HttpInterest(n) == IF n < MAX_CONN THEN ZMQ_POLLIN ELSE NONE

\* What zmq_poll reports for a connection: POLLNVAL on a descriptor that is
\* not open is reported as an error event.
Revents(i, ready) ==
    IF conn_items[i].fd \notin fd_open THEN ZMQ_POLLERR
    ELSE IF conn_items[i].fd \in ready THEN ZMQ_POLLIN
    ELSE NONE

\* The blocking zmq_poll over the broker, the listener and the n_conn
\* connections returns the number of items with events.
Poll ==
    /\ pc = "poll"
    /\ \E ready \in SUBSET fd_open, b \in {NONE, ZMQ_POLLIN},
          h \in {NONE, ZMQ_POLLIN} :
        LET n == Cardinality({i \in Active : Revents(i, ready) # NONE})
                 + (IF b # NONE THEN 1 ELSE 0) + (IF h # NONE THEN 1 ELSE 0)
        IN  /\ b # NONE => broker_msgs # EmptyBag
            /\ h # NONE => HttpInterest(n_conn) = ZMQ_POLLIN
            /\ ready \subseteq {conn_items[i].fd : i \in Active}
            /\ n >= 1
            /\ n_waiting' = n
            /\ broker_revents' = b
            /\ http_revents' = h
            /\ conn_items' = [i \in Slots |->
                    IF i \in Active
                    THEN [conn_items[i] EXCEPT !.revents = Revents(i, ready)]
                    ELSE conn_items[i]]
    /\ http_events' = HttpInterest(n_conn)
    /\ pc' = "broker"
    /\ sent' = <<>>
    /\ UNCHANGED <<n_conn, buffers, conn_remove_queue, c, fd_open, fd_err, broker_msgs, oob, accepted, call>>

\* zmq_poll fails: n_waiting < 1, the loop ends.
PollInterrupted ==
    /\ pc = "poll"
    /\ http_events' = HttpInterest(n_conn)
    /\ n_waiting' = -1
    /\ pc' = "exit"
    /\ sent' = <<>>
    /\ UNCHANGED <<n_conn, conn_items, buffers, conn_remove_queue,
                   broker_revents, http_revents, c, fd_open, fd_err, broker_msgs,
                   oob, accepted, call>>

\* The broker socket has a reply: write it to the descriptor it names.
BrokerReply ==
    /\ pc = "broker"
    /\ broker_revents = ZMQ_POLLIN
    /\ \E frame \in BagToSet(broker_msgs) :
        Store(route_reply([World EXCEPT
                !.broker_msgs = @ (-) SetToBag({frame})], frame))
    /\ n_waiting' = n_waiting - 1
    /\ pc' = "accept"
    /\ UNCHANGED <<broker_revents, http_events, http_revents, c, accepted, call>>

BrokerIdle ==
    /\ pc = "broker"
    /\ broker_revents # ZMQ_POLLIN
    /\ pc' = "accept"
    /\ sent' = <<>>
    /\ UNCHANGED <<n_conn, conn_items, buffers, conn_remove_queue,
                   broker_revents, http_events, http_revents, n_waiting, c,
                   fd_open, fd_err, broker_msgs, oob, accepted, call>>

\* accept returns the lowest descriptor that is not open. call records the
\* slot add_conn fills, until the end of the iteration.
AcceptConn ==
    /\ pc = "accept"
    /\ http_revents = ZMQ_POLLIN
    /\ Fds \ fd_open # {}
    /\ accepted < MaxAccepted
    /\ accepted' = accepted + 1
    /\ LET client_socket == Min(Fds \ fd_open)
           W1 == [World EXCEPT !.fd_open = @ \cup {client_socket}]
       IN Store(add_conn(W1, client_socket))
    /\ call' = [op |-> "add_conn", arg |-> n_conn, ret |-> TRUE]
    /\ n_waiting' = n_waiting - 1
    /\ pc' = "read"
    /\ c' = 0
    /\ UNCHANGED <<broker_revents, http_events, http_revents>>

\* accept fails (client_socket < 0): nothing is added.
AcceptError ==
    /\ pc = "accept"
    /\ http_revents = ZMQ_POLLIN
    /\ n_waiting' = n_waiting - 1
    /\ pc' = "read"
    /\ c' = 0
    /\ sent' = <<>>
    /\ UNCHANGED <<n_conn, conn_items, buffers, conn_remove_queue,
                   broker_revents, http_events, http_revents, fd_open, fd_err, broker_msgs, oob, accepted, call>>

AcceptIdle ==
    /\ pc = "accept"
    /\ http_revents # ZMQ_POLLIN
    /\ pc' = "read"
    /\ c' = 0
    /\ sent' = <<>>
    /\ UNCHANGED <<n_conn, conn_items, buffers, conn_remove_queue,
                   broker_revents, http_events, http_revents, n_waiting,
                   fd_open, fd_err, broker_msgs, oob, accepted, call>>

\* What the peer of connection nc may make the next recv return.
RecvEvents(nc) ==
    IF conn_items[nc].fd \notin fd_open THEN {Err}
    ELSE IF conn_items[nc].fd \in fd_err THEN {Eof}
    ELSE {Data(ch) : ch \in Chunks} \cup {Eof, Err}

\* One round of the read loop on a connection with input.
ReadConn ==
    /\ pc = "read"
    /\ c < n_conn /\ n_waiting > 0
    /\ conn_items[c].revents = ZMQ_POLLIN
    /\ \E ev \in RecvEvents(c), stale \in StaleBytes :
        LET r == read_input(World, c, ev, stale)
            W2 == IF r.eol THEN send_request(r.W, c) ELSE r.W
        IN  /\ BagCardinality(W2.broker_msgs) <= MaxInflight
            /\ Store(W2)
            /\ pc' = IF W2.oob THEN "undefined" ELSE "read"
    /\ n_waiting' = n_waiting - 1
    /\ c' = c + 1
    /\ UNCHANGED <<broker_revents, http_events, http_revents, accepted, call>>

\* One round of the read loop on a connection without input.
SkipConn ==
    /\ pc = "read"
    /\ c < n_conn /\ n_waiting > 0
    /\ conn_items[c].revents # ZMQ_POLLIN
    /\ c' = c + 1
    /\ sent' = <<>>
    /\ UNCHANGED <<pc, n_conn, conn_items, buffers, conn_remove_queue,
                   broker_revents, http_events, http_revents, n_waiting,
                   fd_open, fd_err, broker_msgs, oob, accepted, call>>

\* The read loop ends.
ReadDone ==
    /\ pc = "read"
    /\ ~(c < n_conn /\ n_waiting > 0)
    /\ pc' = "remove"
    /\ c' = 0
    /\ sent' = <<>>
    /\ UNCHANGED <<n_conn, conn_items, buffers, conn_remove_queue,
                   broker_revents, http_events, http_revents, n_waiting,
                   fd_open, fd_err, broker_msgs, oob, accepted, call>>

\* End of the iteration: remove_conn_enqueued ().
RemoveEnqueued ==
    /\ pc = "remove"
    /\ Store(remove_conn_enqueued(World))
    /\ pc' = "poll"
    /\ n_waiting' = 0
    /\ call' = NoCall
    /\ UNCHANGED <<broker_revents, http_events, http_revents, c, accepted>>

Next ==
    \/ Poll
    \/ PollInterrupted
    \/ BrokerReply
    \/ BrokerIdle
    \/ AcceptConn
    \/ AcceptError
    \/ AcceptIdle
    \/ ReadConn
    \/ SkipConn
    \/ ReadDone
    \/ RemoveEnqueued

Spec == Init /\ [][Next]_vars

\* ------------------------------------------------------------ drivers
\* The parts of the state a driver of single functions leaves alone.
LoopIdle ==
    UNCHANGED <<pc, broker_revents, http_events, http_revents, n_waiting, c,
                accepted>>

\* Driver of the connection table: add_conn, remove_conn and read_input
\* called in any order with any argument, from the state main sets up.
\* call records the last function called and, for remove_conn, its
\* argument and return value.
InitTable ==
    /\ pc = "table"
    /\ n_conn = 0
    /\ conn_items = [i \in Slots |-> [fd |-> 0, events |-> NONE, revents |-> NONE]]
    /\ buffers = [i \in Slots |-> [buf |-> <<>>, size |-> 0]]
    /\ conn_remove_queue = <<>>
    /\ broker_revents = NONE
    /\ http_events = ZMQ_POLLIN
    /\ http_revents = NONE
    /\ n_waiting = 0
    /\ c = 0
    /\ fd_open = Fds
    /\ fd_err = {}
    /\ accepted = 0
    /\ call = NoCall
    /\ sent = <<>>
    /\ broker_msgs = EmptyBag
    /\ oob = FALSE

TblAdd ==
    /\ \E sd \in Fds :
        /\ Store(add_conn(World, sd))
        /\ call' = [op |-> "add_conn", arg |-> 0, ret |-> TRUE]
    /\ LoopIdle

TblRemove ==
    /\ \E nc \in 0 .. MAX_CONN :
        LET r == remove_conn(World, nc)
        IN  /\ Store(r.W)
            /\ call' = [op |-> "remove_conn", arg |-> nc, ret |-> r.ret]
    /\ LoopIdle

TblRead ==
    /\ \E nc \in Active, ch \in Chunks, stale \in StaleBytes :
        LET r == read_input(World, nc, Data(ch), stale)
        IN  /\ buffers[nc].size = 0
            /\ r.W.conn_remove_queue = <<>>
            /\ Store(r.W)
            /\ call' = [op |-> "read_input", arg |-> 0, ret |-> TRUE]
    /\ LoopIdle

NextTable ==
    \/ TblAdd
    \/ TblRemove
    \/ TblRead

SpecTable == InitTable /\ [][NextTable]_vars

\* Driver of read_input: the body of the read loop (read_input, then
\* send_request if the line is complete) on one connection, again and
\* again with any outcome of recv, until the line is complete or the slot
\* is enqueued. call records the outcome of recv and the value returned.
RdBytes == {97, LF, CR}
RdData == UNION {[1 .. n -> RdBytes] : n \in 1 .. MaxRecv}

InitRead ==
    /\ pc = "recv"
    /\ n_conn = 1
    /\ conn_items = [i \in Slots |->
            IF i = 0 THEN [fd |-> 1, events |-> ZMQ_POLLIN, revents |-> ZMQ_POLLIN]
            ELSE [fd |-> 0, events |-> NONE, revents |-> NONE]]
    /\ buffers = [i \in Slots |-> [buf |-> <<>>, size |-> 0]]
    /\ conn_remove_queue = <<>>
    /\ broker_revents = NONE
    /\ http_events = ZMQ_POLLIN
    /\ http_revents = NONE
    /\ n_waiting = 1
    /\ c = 0
    /\ fd_open = {1}
    /\ fd_err = {}
    /\ accepted = 1
    /\ call = NoCall
    /\ sent = <<>>
    /\ broker_msgs = EmptyBag
    /\ oob = FALSE

RdRecv ==
    /\ pc = "recv"
    /\ \E ev \in {Data(d) : d \in RdData} \cup {Eof}
                 \cup (IF buffers[0].size > -MaxNeg THEN {Err} ELSE {}),
          stale \in StaleBytes :
        LET r == read_input(World, 0, ev, stale)
            W2 == IF r.eol THEN send_request(r.W, 0) ELSE r.W
        IN  /\ Store(W2)
            /\ call' = [op |-> "read_input", arg |-> ev, ret |-> r.eol]
            /\ pc' = IF r.eol \/ r.W.conn_remove_queue # <<>> \/ r.W.oob
                     THEN "done" ELSE "recv"
    /\ UNCHANGED <<broker_revents, http_events, http_revents, n_waiting, c,
                   accepted>>

NextRead == RdRecv

SpecRead == InitRead /\ [][NextRead]_vars

\* Driver of the reply path: a connection on any descriptor sends
\* "GET ?a\n", the request goes to the broker and the reply comes back.
InitRoute ==
    /\ pc = "request"
    /\ n_conn = 1
    /\ \E sd \in 1 .. MaxSd :
        /\ conn_items = [i \in Slots |->
                IF i = 0 THEN [fd |-> sd, events |-> ZMQ_POLLIN, revents |-> ZMQ_POLLIN]
                ELSE [fd |-> 0, events |-> NONE, revents |-> NONE]]
        /\ fd_open = {sd}
    /\ buffers = [i \in Slots |-> [buf |-> <<>>, size |-> 0]]
    /\ conn_remove_queue = <<>>
    /\ broker_revents = NONE
    /\ http_events = ZMQ_POLLIN
    /\ http_revents = NONE
    /\ n_waiting = 1
    /\ c = 0
    /\ fd_err = {}
    /\ accepted = 1
    /\ call = NoCall
    /\ sent = <<>>
    /\ broker_msgs = EmptyBag
    /\ oob = FALSE

RtRequest ==
    /\ pc = "request"
    /\ LET r == read_input(World, 0, Data(<<71, 69, 84, 32, 63, 97, LF>>), NUL)
       IN  /\ r.eol
           /\ Store(send_request(r.W, 0))
    /\ call' = [op |-> "send_request", arg |-> 0, ret |-> TRUE]
    /\ pc' = "reply"
    /\ UNCHANGED <<broker_revents, http_events, http_revents, n_waiting, c,
                   accepted>>

RtReply ==
    /\ pc = "reply"
    /\ \E frame \in BagToSet(broker_msgs) :
        /\ Store(route_reply([World EXCEPT
                !.broker_msgs = @ (-) SetToBag({frame})], frame))
        /\ call' = [op |-> "route_reply", arg |-> frame, ret |-> TRUE]
    /\ pc' = "done"
    /\ UNCHANGED <<broker_revents, http_events, http_revents, n_waiting, c,
                   accepted>>

NextRoute ==
    \/ RtRequest
    \/ RtReply

SpecRoute == InitRoute /\ [][NextRoute]_vars

\* Driver of the dispatcher: one connection delivers a whole request line
\* with its terminator in one recv; the line is read and dispatched, and
\* the broker's reply, if a request went out, is routed. call records the
\* line.
Verbs == { <<>>, GET, <<71, 69>>, <<103, 101, 116>>, <<71, 69, 84, 97>> }
Separators == { <<>>, <<SP>>, <<SP, SP>>, <<TAB>> }
Resources ==
    { <<>>, <<97>>, <<QMARK>>, <<QMARK, 97>>, <<97, QMARK>>,
      <<97, QMARK, 97>>, <<QMARK, QMARK>>, <<97, QMARK, TAB, 97>>,
      <<97, TAB, QMARK, 97>> }
Trailers == { <<>>, <<SP>>, <<SP, 97>>, <<SP, QMARK, 97>> }
Terminators == { <<LF>>, <<CR>>, <<CR, LF>> }

\* The request lines the driver delivers: those that fit with their
\* terminator.
Lines ==
    { l \in { lead \o v \o sp \o r \o t :
                lead \in {<<>>, <<SP>>}, v \in Verbs, sp \in Separators,
                r \in Resources, t \in Trailers } :
        Len(l) + 2 < BUFLEN }

InitDispatch ==
    /\ pc = "request"
    /\ n_conn = 1
    /\ conn_items = [i \in Slots |->
            IF i = 0 THEN [fd |-> 1, events |-> ZMQ_POLLIN, revents |-> ZMQ_POLLIN]
            ELSE [fd |-> 0, events |-> NONE, revents |-> NONE]]
    /\ buffers = [i \in Slots |-> [buf |-> <<>>, size |-> 0]]
    /\ conn_remove_queue = <<>>
    /\ broker_revents = NONE
    /\ http_events = ZMQ_POLLIN
    /\ http_revents = NONE
    /\ n_waiting = 1
    /\ c = 0
    /\ fd_open = {1}
    /\ fd_err = {}
    /\ accepted = 1
    /\ call = NoCall
    /\ sent = <<>>
    /\ broker_msgs = EmptyBag
    /\ oob = FALSE

DsRequest ==
    /\ pc = "request"
    /\ \E line \in Lines, term \in Terminators, stale \in StaleBytes :
        LET r == read_input(World, 0, Data(line \o term), stale)
        IN  /\ r.eol
            /\ Store(send_request(r.W, 0))
            /\ call' = [op |-> "send_request", arg |-> line, ret |-> TRUE]
    /\ pc' = "done"
    /\ UNCHANGED <<broker_revents, http_events, http_revents, n_waiting, c,
                   accepted>>

DsReply ==
    /\ pc = "done"
    /\ \E frame \in BagToSet(broker_msgs) :
        Store(route_reply([World EXCEPT
                !.broker_msgs = @ (-) SetToBag({frame})], frame))
    /\ pc' = "replied"
    /\ UNCHANGED <<broker_revents, http_events, http_revents, n_waiting, c,
                   accepted, call>>

NextDispatch ==
    \/ DsRequest
    \/ DsReply

SpecDispatch == InitDispatch /\ [][NextDispatch]_vars

\* ------------------------------------------------------------ properties
\* The indices in the removal queue.
Enqueued == {conn_remove_queue[k] : k \in 1 .. Len(conn_remove_queue)}

\* C1: at every blocking wait each active slot holds a descriptor that is
\* open, has not been handed off in a broker request, and is held by no
\* other active slot.
TableOwnsDescriptors ==
    pc = "poll" =>
        \A i \in Active :
            /\ conn_items[i].fd \in fd_open
            /\ Frame(conn_items[i].fd) \notin BagToSet(broker_msgs)
            /\ \A j \in Active : j # i => conn_items[j].fd # conn_items[i].fd

\* C2: when the removal queue has been applied, every connection that was
\* enqueued is gone from the table and every connection that was not is
\* still in it with its descriptor and its buffer.
BatchRemovesExactlyEnqueued ==
    [][pc = "remove" =>
        /\ \A i \in Enqueued : \A j \in Slots :
                j < n_conn' => conn_items'[j].fd # conn_items[i].fd
        /\ \A i \in Active \ Enqueued : \E j \in Slots :
                /\ j < n_conn'
                /\ conn_items'[j].fd = conn_items[i].fd
                /\ buffers'[j] = buffers[i]]_vars

\* C3: applying a removal queue of N distinct valid indices reduces n_conn
\* by exactly N.
BatchReducesByN ==
    [][(/\ pc = "remove"
        /\ Cardinality(Enqueued) = Len(conn_remove_queue)
        /\ \A i \in Enqueued : i < n_conn)
       => n_conn' = n_conn - Len(conn_remove_queue)]_vars

\* C6: an iteration that begins with a full table does not wait on the
\* listening socket and accepts nothing, an iteration that begins below
\* capacity waits on it, and add_conn is never called on a full table.
Backpressure ==
    /\ n_conn <= MAX_CONN
    /\ pc \in {"broker", "accept"} =>
        /\ http_events = ZMQ_POLLIN <=> n_conn < MAX_CONN
        /\ http_revents = ZMQ_POLLIN => n_conn < MAX_CONN

\* C6 witness: an iteration that began with a full table is at its accept
\* step.
BackpressureWitness ==
    pc = "accept" /\ n_conn = MAX_CONN /\ http_events = NONE

\* C7: the steps of an iteration follow each other in the order reply,
\* accept, reads, removals; between the wait and the end of the read scan
\* no slot is removed or moved; the removal queue is empty at every wait.
IterationOrder ==
    /\ [](pc = "poll" => conn_remove_queue = <<>>)
    /\ [][/\ pc = "poll" => pc' \in {"broker", "exit"}
          /\ pc = "broker" => pc' = "accept"
          /\ pc = "accept" => pc' = "read"
          /\ pc = "read" => pc' \in {"read", "remove", "undefined"}
          /\ pc = "remove" => pc' = "poll"
          /\ pc \in {"broker", "accept", "read"} =>
                /\ n_conn' >= n_conn
                /\ \A i \in Active : conn_items'[i].fd = conn_items[i].fd]_vars

\* C7 witness: the read scan is under way with a removal pending.
IterationOrderWitness ==
    pc = "read" /\ c > 0 /\ c < n_conn /\ conn_remove_queue # <<>>

\* C8: a read that fills the buffer without a line terminator enqueues the
\* slot for removal in that iteration and sends nothing.
OverflowEnqueues ==
    [][(/\ pc = "read"
        /\ c < n_conn
        /\ buffers[c].size < BUFLEN
        /\ buffers'[c].size >= BUFLEN)
       => /\ \E k \in 1 .. Len(conn_remove_queue') : conn_remove_queue'[k] = c
          /\ sent' = <<>>]_vars

\* C4: n_conn stays within 0 .. MAX_CONN whatever is added and removed.
NConnInRange == 0 <= n_conn /\ n_conn <= MAX_CONN

\* C4 witness: remove_conn was called on an empty table with index 0.
NConnInRangeWitness ==
    call.op = "remove_conn" /\ call.arg = 0 /\ ~call.ret /\ n_conn = 0

\* C5: remove_conn (nc) with nc below the last slot puts the last slot's
\* descriptor, interest and buffer into slot nc; it leaves every other
\* surviving slot alone, decrements n_conn and resets the vacated slot's
\* size; with nc out of range it returns false and changes nothing.
SwapDelete ==
    [][call'.op = "remove_conn" =>
        LET nc == call'.arg
            last == n_conn - 1
        IN  IF nc >= n_conn
            THEN /\ ~call'.ret
                 /\ UNCHANGED <<n_conn, conn_items, buffers, conn_remove_queue>>
            ELSE /\ call'.ret
                 /\ n_conn' = n_conn - 1
                 /\ nc < last =>
                        /\ conn_items'[nc].fd = conn_items[last].fd
                        /\ conn_items'[nc].events = conn_items[last].events
                        /\ buffers'[nc] = buffers[last]
                 /\ \A j \in Slots : (j < last /\ j # nc) =>
                        /\ conn_items'[j] = conn_items[j]
                        /\ buffers'[j] = buffers[j]
                 /\ buffers'[last].size = 0]_vars

\* C5 witness: a removal moved a last slot that had accumulated bytes into
\* a slot that is not the only one left.
SwapDeleteWitness ==
    /\ call.op = "remove_conn" /\ call.ret
    /\ call.arg < n_conn
    /\ n_conn >= 2
    /\ buffers[call.arg].size > 0

\* The request line send_request sees: the bytes before the first NUL.
RECURSIVE CString(_, _)
CString(b, p) ==
    IF p >= Len(b) \/ At(b, p) = NUL THEN <<>>
    ELSE <<At(b, p)>> \o CString(b, p + 1)

\* The position (from 1) of the first line terminator in a sequence, or 0.
RECURSIVE EolAt(_, _)
EolAt(seq, i) ==
    IF i > Len(seq) THEN 0
    ELSE IF IsEol(seq[i]) THEN i
    ELSE EolAt(seq, i + 1)

\* C9: a read whose bytes fit and contain a terminator completes the line,
\* which is the accumulated bytes before the first terminator; a read that
\* leaves no terminator among the accumulated bytes needs more, until the
\* buffer holds BUFLEN bytes.
LineAccumulation ==
    [][(/\ call'.op = "read_input"
        /\ call'.arg.kind = "data"
        /\ buffers[0].size >= 0
        /\ Len(call'.arg.bytes) <= BUFLEN - buffers[0].size)
       => LET accumulated ==
                  SubSeq(buffers[0].buf, 1, buffers[0].size) \o call'.arg.bytes
              eol == EolAt(accumulated, 1)
          IN  IF EolAt(call'.arg.bytes, 1) > 0
              THEN /\ call'.ret
                   /\ CString(buffers'[0].buf, 0) = SubSeq(accumulated, 1, eol - 1)
              ELSE eol = 0 =>
                   /\ ~call'.ret
                   /\ buffers'[0].size = Len(accumulated)
                   /\ (Len(accumulated) < BUFLEN => conn_remove_queue' = <<>>)]_vars

\* C10: the reply is written to, and only to, the descriptor of the
\* connection that made the request, which is then closed.
RepliedToRequester ==
    pc = "done" =>
        /\ sent = << <<conn_items[0].fd, OK_TEXT_PLAIN>>,
                     <<conn_items[0].fd, RESPONSE>> >>
        /\ conn_items[0].fd \notin fd_open

\* The descriptor whose four bytes an envelope holds.
FrameValue(frame) ==
    frame[1] + frame[2] * BYTE + frame[3] * BYTE * BYTE
        + frame[4] * BYTE * BYTE * BYTE

\* A step of the read loop that sent a request to the broker.
Dispatched == pc = "read" /\ broker_msgs' # broker_msgs

\* C11: a dispatch sends exactly one broker message carrying the descriptor
\* of the connection, enqueues the slot, sends nothing to the client and
\* leaves the descriptor open; the descriptor of every request at the
\* broker stays open, with one request for it, until the reply is routed,
\* and routing the reply closes it.
DispatchKeepsOpen ==
    /\ [](\A f \in BagToSet(broker_msgs) :
            /\ FrameValue(f) \in fd_open
            /\ CopiesIn(f, broker_msgs) = 1)
    /\ [][/\ Dispatched =>
                /\ broker_msgs' = broker_msgs (+) SetToBag({Frame(conn_items[c].fd)})
                /\ conn_remove_queue' = Append(conn_remove_queue, c)
                /\ conn_items[c].fd \in fd_open'
                /\ sent' = <<>>
          /\ (pc = "broker" /\ broker_msgs' # broker_msgs) =>
                \E f \in BagToSet(broker_msgs) :
                    /\ broker_msgs' = broker_msgs (-) SetToBag({f})
                    /\ fd_open' = fd_open \ {FrameValue(f)}]_vars

\* The tokens of a line: its maximal runs of bytes that are not in seps.
RECURSIVE Split(_, _, _, _)
Split(line, seps, i, tok) ==
    IF i > Len(line)
    THEN IF tok = <<>> THEN <<>> ELSE <<tok>>
    ELSE IF line[i] \in seps
    THEN (IF tok = <<>> THEN <<>> ELSE <<tok>>) \o Split(line, seps, i + 1, <<>>)
    ELSE Split(line, seps, i + 1, Append(tok, line[i]))

\* A line passes validation: its first token is GET and its second token
\* has a '?' with at least one byte after it.
PassesValidation(line, seps) ==
    LET t == Split(line, seps, 1, <<>>)
    IN  /\ Len(t) >= 2
        /\ t[1] = GET
        /\ \E i \in 1 .. (Len(t[2]) - 1) : t[2][i] = QMARK

\* C12: a completed line that fails validation (no verb, verb not GET, no
\* resource, no '?' in the resource, nothing after the '?') gets the 404
\* response, its descriptor is closed, its slot is enqueued and no broker
\* message is sent.
RejectTearsDown ==
    (pc = "done" /\ ~PassesValidation(call.arg, {SP})) =>
        /\ sent = << <<conn_items[0].fd, ERROR_404>> >>
        /\ conn_items[0].fd \notin fd_open
        /\ conn_remove_queue = <<0>>
        /\ broker_msgs = EmptyBag

\* C12 witness: the line "GET a?", with nothing after the '?', was rejected.
RejectTearsDownWitness ==
    /\ pc = "done"
    /\ call.arg = <<71, 69, 84, SP, 97, QMARK>>
    /\ sent # <<>>
    /\ fd_open = {}

\* The whitespace bytes a request line can contain.
Whitespace == {SP, TAB}

\* C13: a line is forwarded to the broker if and only if its first
\* whitespace-separated token is GET and its second token has a '?'
\* followed by at least one byte; every other line is rejected.
ForwardIffValid ==
    pc = "done" =>
        /\ broker_msgs # EmptyBag <=> PassesValidation(call.arg, Whitespace)
        /\ broker_msgs = EmptyBag <=> sent = << <<conn_items[0].fd, ERROR_404>> >>

\* C14: a read that returns zero bytes enqueues the slot, sends no broker
\* message and writes nothing to the connection, whatever its buffer holds.
PeerClosedEnqueues ==
    [][(/\ call'.op = "read_input"
        /\ \/ call'.arg.kind = "eof"
           \/ call'.arg.kind = "data" /\ buffers[0].size = BUFLEN)
       => /\ ~call'.ret
          /\ conn_remove_queue' = Append(conn_remove_queue, 0)
          /\ broker_msgs' = broker_msgs
          /\ sent' = <<>>
          /\ buffers' = buffers]_vars

\* C14 witness: the peer closed after some bytes had been accumulated.
PeerClosedEnqueuesWitness ==
    /\ call.op = "read_input"
    /\ call.arg.kind = "eof"
    /\ buffers[0].size > 0
    /\ conn_remove_queue = <<0>>

\* C15: every descriptor that was accepted and has not been closed is in
\* the table or in a request at the broker: a connection that leaves the
\* table without being dispatched has been closed.
TornDown ==
    \A sd \in fd_open :
        \/ \E i \in Active : conn_items[i].fd = sd
        \/ Frame(sd) \in BagToSet(broker_msgs)

\* C16: no slot index is in the removal queue twice, and the queue is
\* never longer than n_conn nor than its capacity MAX_CONN.
EnqueuedOnce ==
    /\ Cardinality(Enqueued) = Len(conn_remove_queue)
    /\ Len(conn_remove_queue) <= n_conn
    /\ Len(conn_remove_queue) <= MAX_CONN

\* C16 witness: every connection of a table of at least two was enqueued
\* in the same iteration.
EnqueuedOnceWitness ==
    /\ pc = "remove"
    /\ n_conn >= 2
    /\ Len(conn_remove_queue) = n_conn

\* The slot filled by the accept of the current iteration, if any.
AcceptedNow(i) == call.op = "add_conn" /\ call.arg = i

\* C17: the read scan reads only connections the wait reported ready and
\* never the connection accepted in the same iteration, and it does not
\* end while a connection the wait reported ready is still unread.
ReadsExactlyReady ==
    [][/\ (pc = "read" /\ c' = c + 1 /\ n_waiting' = n_waiting - 1) =>
                /\ conn_items[c].revents = ZMQ_POLLIN
                /\ ~AcceptedNow(c)
       /\ (pc = "read" /\ pc' = "remove") =>
                \A i \in Active :
                    (i >= c /\ ~AcceptedNow(i)) =>
                        conn_items[i].revents # ZMQ_POLLIN]_vars

\* C18: a read reports the line complete only if one of the bytes it
\* received is a carriage return or a line feed.
CompleteOnlyOnTerminator ==
    [][(call'.op = "read_input" /\ call'.ret) =>
        /\ call'.arg.kind = "data"
        /\ \E i \in 1 .. Len(call'.arg.bytes) :
            /\ i <= BUFLEN - buffers[0].size
            /\ IsEol(call'.arg.bytes[i])]_vars

\* C19: every inactive slot has fill size 0, so that a connection put into
\* the table by add_conn starts accumulating at position 0.
InactiveSlotsEmpty ==
    /\ \A i \in Slots : i >= n_conn =>
            buffers[i].size = 0
    /\ \A i \in Slots : (pc = "read" /\ c = 0 /\ AcceptedNow(i)) =>
            buffers[i].size = 0

\* C19 witness: a connection was added to a slot that an earlier
\* connection had used (its readiness flag is still set), while another
\* slot holds accumulated bytes.
InactiveSlotsEmptyWitness ==
    /\ pc = "read" /\ c = 0
    /\ call.op = "add_conn"
    /\ conn_items[call.arg].revents = ZMQ_POLLIN
    /\ buffers[call.arg].size = 0
    /\ \E i \in Active : buffers[i].size > 0

\* C20: after any sequence of reads the fill size of the buffer is within
\* 0 .. BUFLEN, so is the number of bytes asked of the next recv, and no
\* recv was given memory outside the buffer.
SizeInRange ==
    /\ 0 <= buffers[0].size /\ buffers[0].size <= BUFLEN
    /\ 0 <= BUFLEN - buffers[0].size /\ BUFLEN - buffers[0].size <= BUFLEN
    /\ ~oob

====
